---- MODULE Spec2Model ----
(***************************************************************************)
(* Model of the interview-preparation service of src/main.py: the three    *)
(* in-memory registries (questions_db, interviews_db, user_progress_db),   *)
(* the two helpers that call the external generation service and fall back *)
(* to static content, and the request handlers of the HTTP surface.        *)
(*                                                                         *)
(* The external service is the environment: each call to it is given a     *)
(* reply drawn from a bounded set (the call raises, the content is not     *)
(* JSON, or the content is a JSON value).  The prompt text has no effect   *)
(* on the handlers and is not modelled.  uuid4() is a counter: every call  *)
(* yields the next, never used, identifier.  Scores are integers (the      *)
(* code's floats), and a quotient of two of them is kept as an exact       *)
(* fraction.  The handlers never suspend (the service call of lines 140    *)
(* and 235 is a blocking call), so each handler is one atomic action.      *)
(* SpecScores applies the summary of lines 383-396 to scores that are not  *)
(* whole numbers, in the binary64 arithmetic of Python's float.            *)
(* SpecConc is the same service on a runtime whose service call does       *)
(* suspend: start and submit-answer are split at their awaits (lines 307   *)
(* and 361) and the requests in flight interleave there.                   *)
(***************************************************************************)
EXTENDS Integers, Sequences, FiniteSets, TLC

VARIABLES
    questions_db,      \* main.py:107  question id -> Question
    interviews_db,     \* main.py:105  interview id -> interview dict
    user_progress_db,  \* main.py:106  user id -> progress dict
    uuid,              \* number of uuid4() values issued so far
    response,          \* the reply of the last request handled
    calls,             \* the external-service calls the last request made
    last_request,      \* the last request handled: its operation and inputs
    returned,          \* question ids returned to a caller so far (history)
    answered,          \* <<interview id, question id>> answered so far (history)
    generations,       \* generate and start requests handled so far (history)
    tasks              \* the requests in flight: each one's position and locals

vars == <<questions_db, interviews_db, user_progress_db, uuid, response,
          calls, last_request, returned, answered, generations, tasks>>

\* ------------------------------------------------------------------ bounds

\* Requests that generate questions (generate, start) in one behaviour.
MaxGenCalls == 2
\* The largest count a generate request asks for (above the fallback's cap).
MaxCount == 4

\* Requests in flight at once, where handlers suspend at their awaits.
MaxTasks == 3

\* Answers in a list of scores that is summarised as floats.
MaxAnswers == 3

\* ------------------------------------------------------- program constants

CountLo == 1
CountHi == 20
ScoreLo == 0
ScoreHi == 100
FallbackScore == 75
FallbackCap == 3
MinPerType == 2
TotalQuestions == 10

\* Bits in the significand of a Python float (IEEE 754 binary64).
Mantissa == 53

\* ------------------------------------------------------------------- enums

QuestionType == {"technical", "behavioral", "hr", "system_design"}

DifficultyLevel == {"easy", "medium", "hard"}

InterviewStatus == {"not_started", "in_progress", "completed"}

\* Python's None, and a present Optional value.
None == <<>>

Some(x) == <<x>>

Min2(a, b) == IF a <= b THEN a ELSE b

Max2(a, b) == IF a >= b THEN a ELSE b

\* -------------------------------------------------- question generation

QuestionFields ==
    {"question", "expected_answer_points", "topics", "follow_up_questions"}

\* Question(...) of lines 153-161: q_data[...] raises KeyError on an absent key.
ItemRaises(q_data) == ~(QuestionFields \subseteq DOMAIN q_data)

NewQuestion(id, text, qtype, difficulty, topics, points, followups) ==
    [id |-> id, question |-> text, question_type |-> qtype,
     difficulty |-> difficulty, topics |-> topics,
     expected_answer_points |-> points, follow_up_questions |-> followups]

templates ==
    [technical |->
        <<"Explain the concept of {topic} and how you've used it in your projects.",
          "How would you optimize {topic} for better performance?",
          "What are the trade-offs of using {topic}?">>,
     behavioral |->
        <<"Tell me about a time when you faced a challenging deadline.",
          "Describe a situation where you had to work with a difficult team member.",
          "How do you handle failure or setbacks in your work?">>,
     hr |->
        <<"Why do you want to work for our company?",
          "What are your salary expectations?",
          "Where do you see yourself in 5 years?">>]

\* templates[question_type] of line 195 raises KeyError for a type without templates.
TemplateRaises(qtype) == qtype \notin DOMAIN templates

\* templates.get(question_type, ["Sample question"])[i % len(templates[question_type])]
TemplateText(qtype, i) ==
    LET got == IF qtype \in DOMAIN templates THEN templates[qtype]
               ELSE <<"Sample question">>
    IN  got[(i % Len(templates[qtype])) + 1]

FallbackCount(count) == Min2(count, FallbackCap)

\* The loop of lines 192-203, from index i with the list qs built so far.
\* id=str(uuid4()) is evaluated before the template lookup can raise.
RECURSIVE FallbackLoop(_, _, _, _, _, _, _)
FallbackLoop(db, u, qs, i, qtype, difficulty, count) ==
    IF i >= FallbackCount(count)
    THEN [raised |-> FALSE, questions |-> qs, db |-> db, uuid |-> u]
    ELSE IF TemplateRaises(qtype)
    THEN [raised |-> TRUE, questions |-> qs, db |-> db, uuid |-> u + 1]
    ELSE LET q == NewQuestion(u + 1, TemplateText(qtype, i), qtype, difficulty,
                              <<"general">>,
                              <<"Provide specific examples",
                                "Show problem-solving skills">>,
                              <<"Can you elaborate on that?",
                                "What did you learn from this experience?">>)
         IN  FallbackLoop(db @@ ((u + 1) :> q), u + 1, Append(qs, q), i + 1,
                          qtype, difficulty, count)

\* uuid4() is called once, ahead of the loop: the questions share one identifier.
generate_fallback_questions_one_id(db, u, qtype, difficulty, count) ==
    LET n  == FallbackCount(count)
        qs == [i \in 1..n |->
                 NewQuestion(u + 1, TemplateText(qtype, i - 1), qtype, difficulty,
                             <<"general">>,
                             <<"Provide specific examples",
                               "Show problem-solving skills">>,
                             <<"Can you elaborate on that?",
                               "What did you learn from this experience?">>)]
    IN  IF TemplateRaises(qtype)
        THEN [raised |-> TRUE, questions |-> <<>>, db |-> db, uuid |-> u + 1]
        ELSE [raised |-> FALSE, questions |-> qs,
              db |-> (u + 1 :> qs[n]) @@ db, uuid |-> u + 1]

generate_fallback_questions(db, u, qtype, difficulty, count) ==
    FallbackLoop(db, u, <<>>, 0, qtype, difficulty, count)

\* The loop of lines 151-163 over the parsed reply; an item that raises leaves
\* the questions registered so far in the store and hands over to the fallback.
RECURSIVE ParseLoop(_, _, _, _, _, _, _, _)
ParseLoop(db, u, qs, i, items, qtype, difficulty, count) ==
    IF i > Len(items)
    THEN [raised |-> FALSE, questions |-> qs, db |-> db, uuid |-> u,
          fallback |-> FALSE]
    ELSE IF ItemRaises(items[i])
    THEN generate_fallback_questions(db, u + 1, qtype, difficulty, count)
            @@ [fallback |-> TRUE]
    ELSE LET q == NewQuestion(u + 1, items[i].question, qtype, difficulty,
                              items[i].topics, items[i].expected_answer_points,
                              items[i].follow_up_questions)
         IN  ParseLoop(db @@ ((u + 1) :> q), u + 1, Append(qs, q), i + 1,
                       items, qtype, difficulty, count)

\* Lines 139-169.  reply.kind: "raise" (the service call raises), "not_json"
\* (json.loads raises, or the value cannot be iterated), "json" (reply.value is
\* the parsed array).
generate_questions_with_gpt(db, u, qtype, difficulty, count, reply) ==
    IF reply.kind = "json"
    THEN ParseLoop(db, u, <<>>, 1, reply.value, qtype, difficulty, count)
    ELSE generate_fallback_questions(db, u, qtype, difficulty, count)
            @@ [fallback |-> TRUE]

\* ------------------------------------------------------ answer evaluation

FeedbackFields ==
    {"score", "strengths", "areas_for_improvement", "detailed_feedback",
     "suggested_resources", "model_answer"}

\* The score's range is not checked.
FeedbackRaisesNoRange(data) == ~(FeedbackFields \subseteq DOMAIN data)

\* AnswerFeedback(**feedback_data) of line 246 with the Field(..., ge=0, le=100)
\* of line 73: a missing field or a score out of range raises.
FeedbackRaises(data) ==
    \/ ~(FeedbackFields \subseteq DOMAIN data)
    \/ data.score < ScoreLo
    \/ data.score > ScoreHi

AnswerFeedback(data) == [f \in FeedbackFields |-> data[f]]

\* Lines 250-257.
FallbackFeedback ==
    [score |-> FallbackScore,
     strengths |-> <<"Attempted to answer the question",
                     "Showed relevant knowledge">>,
     areas_for_improvement |-> <<"Could provide more specific examples",
                                 "Consider elaborating on key concepts">>,
     detailed_feedback |-> "Your answer addresses the question but could be strengthened with more specific examples and deeper technical details.",
     suggested_resources |-> <<"Practice STAR method for behavioral questions",
                               "Review technical fundamentals">>,
     model_answer |-> "A comprehensive answer would include specific examples, demonstrate deep understanding, and relate to real-world applications."]

\* Lines 207-257.  reply.kind as for generation; reply.value is the parsed object.
evaluate_answer_with_gpt(question, user_answer, reply) ==
    IF reply.kind = "json" /\ ~FeedbackRaises(reply.value)
    THEN AnswerFeedback(reply.value)
    ELSE FallbackFeedback

\* ---------------------------------------------------------------- replies

Resp(op, code, body) == [op |-> op, code |-> code, body |-> body]

\* HTTPException(status_code=404, detail=...)
NotFound(op, detail) == Resp(op, 404, [detail |-> detail])

\* An exception that leaves the handler: the framework answers 500.
ServerError(op) == Resp(op, 500, [detail |-> "Internal Server Error"])

Ids(qs) == {qs[i].id : i \in DOMAIN qs}

IdList(qs) == [i \in DOMAIN qs |-> qs[i].id]

\* One generation call: what was asked, the path taken and, unless the call
\* raised, the identifiers of the list it returned.
GenCall(qtype, count, r) ==
    [api |-> "generate", question_type |-> qtype, count |-> count,
     fallback |-> r.fallback, raised |-> r.raised,
     ids |-> IF r.raised THEN <<>> ELSE IdList(r.questions)]

EvalCall(qid) == [api |-> "evaluate", question_id |-> qid]

Req(op, args) == [op |-> op, args |-> args]

\* ---------------------------------------------------------------- handlers

\* POST /api/questions/generate, lines 274-284.
generate_questions(request, reply) ==
    LET r == generate_questions_with_gpt(questions_db, uuid, request.question_type,
                                         request.difficulty, request.count, reply)
    IN  /\ UNCHANGED tasks
        /\ last_request' = Req("generate", request)
        /\ questions_db' = r.db
        /\ uuid' = r.uuid
        /\ calls' = <<GenCall(request.question_type, request.count, r)>>
        /\ response' = IF r.raised THEN ServerError("generate")
                       ELSE Resp("generate", 200, r.questions)
        /\ returned' = IF r.raised THEN returned ELSE returned \cup Ids(r.questions)
        /\ generations' = generations + 1
        /\ UNCHANGED <<interviews_db, user_progress_db, answered>>

\* POST /api/answers/submit, lines 286-295.
submit_answer(submission, reply) ==
    /\ UNCHANGED tasks
    /\ last_request' = Req("submit", submission)
    /\ IF submission.question_id \notin DOMAIN questions_db
       THEN /\ response' = NotFound("submit", "Question not found")
            /\ calls' = <<>>
       ELSE /\ response' =
                Resp("submit", 200,
                     evaluate_answer_with_gpt(questions_db[submission.question_id],
                                              submission.user_answer, reply))
            /\ calls' = <<EvalCall(submission.question_id)>>
    /\ UNCHANGED <<questions_db, interviews_db, user_progress_db, uuid, returned,
                   answered, generations>>

\* min in place of max.
questions_per_type_min(n) == Min2(MinPerType, TotalQuestions \div n)

\* max(2, 10 // len(request.question_types)), line 304.
questions_per_type(n) == Max2(MinPerType, TotalQuestions \div n)

\* The loop of lines 306-313 from the i-th type on; replies[i] is the service's
\* reply to the i-th generation call.
RECURSIVE StartLoop(_, _, _, _, _, _, _, _)
StartLoop(db, u, all, trace, i, request, replies, count) ==
    IF i > Len(request.question_types)
    THEN [raised |-> FALSE, questions |-> all, db |-> db, uuid |-> u,
          calls |-> trace]
    ELSE LET r == generate_questions_with_gpt(db, u, request.question_types[i],
                                              request.difficulty, count, replies[i])
             t == Append(trace, GenCall(request.question_types[i], count, r))
         IN  IF r.raised
             THEN [raised |-> TRUE, questions |-> all, db |-> r.db,
                   uuid |-> r.uuid, calls |-> t]
             ELSE StartLoop(r.db, r.uuid, all \o r.questions, t, i + 1,
                            request, replies, count)

NewInterview(id, role, questions) ==
    [interview_id |-> id, role |-> role, status |-> "not_started",
     questions |-> questions, start_time |-> None, end_time |-> None,
     answers |-> <<>>]

\* POST /api/mock-interview/start, lines 297-334.  The division of line 304
\* raises ZeroDivisionError on an empty list of types.
start_mock_interview(request, replies) ==
    LET id == uuid + 1
        n  == Len(request.question_types)
        r  == StartLoop(questions_db, id, <<>>, <<>>, 1, request, replies,
                        questions_per_type(n))
    IN  /\ UNCHANGED tasks
        /\ last_request' = Req("start", request)
        /\ generations' = generations + 1
        /\ UNCHANGED <<user_progress_db, answered>>
        /\ IF n = 0
           THEN /\ uuid' = id
                /\ response' = ServerError("start")
                /\ calls' = <<>>
                /\ UNCHANGED <<questions_db, interviews_db, returned>>
           ELSE IF r.raised
           THEN /\ uuid' = r.uuid
                /\ questions_db' = r.db
                /\ calls' = r.calls
                /\ response' = ServerError("start")
                /\ UNCHANGED <<interviews_db, returned>>
           ELSE /\ uuid' = r.uuid
                /\ questions_db' = r.db
                /\ calls' = r.calls
                /\ interviews_db' = interviews_db @@
                        (id :> NewInterview(id, request.role, r.questions))
                /\ response' =
                        Resp("start", 200,
                             [interview_id |-> id, role |-> request.role,
                              status |-> "not_started",
                              questions |-> r.questions,
                              start_time |-> None, end_time |-> None])
                /\ returned' = returned \cup Ids(r.questions)

\* Only a session that has not started is started; any other is left as it is.
begin_interview_once(interview_id, now) ==
    /\ UNCHANGED tasks
    /\ last_request' = Req("begin", [interview_id |-> interview_id])
    /\ IF interview_id \notin DOMAIN interviews_db
       THEN /\ response' = NotFound("begin", "Interview not found")
            /\ UNCHANGED interviews_db
       ELSE /\ interviews_db' =
                IF interviews_db[interview_id].status = "not_started"
                THEN [interviews_db EXCEPT ![interview_id].status = "in_progress",
                                           ![interview_id].start_time = Some(now)]
                ELSE interviews_db
            /\ response' = Resp("begin", 200,
                                [message |-> "Interview started",
                                 interview_id |-> interview_id])
    /\ calls' = <<>>
    /\ UNCHANGED <<questions_db, user_progress_db, uuid, returned, answered, generations>>

\* An unknown identifier gets a session of its own in place of the 404.
begin_interview_upsert(interview_id, now) ==
    /\ UNCHANGED tasks
    /\ last_request' = Req("begin", [interview_id |-> interview_id])
    /\ interviews_db' =
            [i \in DOMAIN interviews_db \cup {interview_id} |->
                [(IF i \in DOMAIN interviews_db THEN interviews_db[i]
                  ELSE NewInterview(i, "", <<>>))
                 EXCEPT !.status = IF i = interview_id THEN "in_progress" ELSE @,
                        !.start_time = IF i = interview_id THEN Some(now) ELSE @]]
    /\ response' = Resp("begin", 200,
                        [message |-> "Interview started",
                         interview_id |-> interview_id])
    /\ calls' = <<>>
    /\ UNCHANGED <<questions_db, user_progress_db, uuid, returned, answered,
                   generations>>

\* POST /api/mock-interview/{interview_id}/begin, lines 336-347.
begin_interview(interview_id, now) ==
    /\ UNCHANGED tasks
    /\ last_request' = Req("begin", [interview_id |-> interview_id])
    /\ IF interview_id \notin DOMAIN interviews_db
       THEN /\ response' = NotFound("begin", "Interview not found")
            /\ UNCHANGED interviews_db
       ELSE /\ interviews_db' =
                [interviews_db EXCEPT ![interview_id].status = "in_progress",
                                      ![interview_id].start_time = Some(now)]
            /\ response' = Resp("begin", 200,
                                [message |-> "Interview started",
                                 interview_id |-> interview_id])
    /\ calls' = <<>>
    /\ UNCHANGED <<questions_db, user_progress_db, uuid, returned, answered, generations>>

\* The answer map is replaced by one holding the new entry alone.
PutAnswerFresh(answers, qid, entry) == [q \in {qid} |-> entry]

\* interview["answers"][question_id] = {...}, lines 363-367.
PutAnswer(answers, qid, entry) ==
    [q \in DOMAIN answers \cup {qid} |-> IF q = qid THEN entry ELSE answers[q]]

\* Answers are taken only while the session is in progress.
submit_interview_answer_guarded(interview_id, submission, reply) ==
    /\ UNCHANGED tasks
    /\ last_request' = Req("submit_interview",
                      [interview_id |-> interview_id, submission |-> submission])
    /\ IF interview_id \notin DOMAIN interviews_db
       THEN /\ response' = NotFound("submit_interview", "Interview not found")
            /\ calls' = <<>>
            /\ UNCHANGED <<interviews_db, answered>>
       ELSE IF submission.question_id \notin DOMAIN questions_db
       THEN /\ response' = NotFound("submit_interview", "Question not found")
            /\ calls' = <<>>
            /\ UNCHANGED <<interviews_db, answered>>
       ELSE IF interviews_db[interview_id].status # "in_progress"
       THEN /\ response' = Resp("submit_interview", 400,
                                [detail |-> "Interview not in progress"])
            /\ calls' = <<>>
            /\ UNCHANGED <<interviews_db, answered>>
       ELSE LET feedback ==
                    evaluate_answer_with_gpt(questions_db[submission.question_id],
                                             submission.user_answer, reply)
                entry == [answer |-> submission.user_answer,
                          feedback |-> feedback,
                          time_taken |-> submission.time_taken_seconds]
            IN  /\ interviews_db' =
                        [interviews_db EXCEPT ![interview_id].answers =
                            PutAnswer(@, submission.question_id, entry)]
                /\ calls' = <<EvalCall(submission.question_id)>>
                /\ response' = Resp("submit_interview", 200, feedback)
                /\ answered' = answered \cup
                                 {<<interview_id, submission.question_id>>}
    /\ UNCHANGED <<questions_db, user_progress_db, uuid, returned, generations>>

\* POST /api/mock-interview/{interview_id}/submit-answer, lines 349-369.
submit_interview_answer(interview_id, submission, reply) ==
    /\ UNCHANGED tasks
    /\ last_request' = Req("submit_interview",
                      [interview_id |-> interview_id, submission |-> submission])
    /\ IF interview_id \notin DOMAIN interviews_db
       THEN /\ response' = NotFound("submit_interview", "Interview not found")
            /\ calls' = <<>>
            /\ UNCHANGED <<interviews_db, answered>>
       ELSE IF submission.question_id \notin DOMAIN questions_db
       THEN /\ response' = NotFound("submit_interview", "Question not found")
            /\ calls' = <<>>
            /\ UNCHANGED <<interviews_db, answered>>
       ELSE LET feedback ==
                    evaluate_answer_with_gpt(questions_db[submission.question_id],
                                             submission.user_answer, reply)
                entry == [answer |-> submission.user_answer,
                          feedback |-> feedback,
                          time_taken |-> submission.time_taken_seconds]
            IN  /\ interviews_db' =
                        [interviews_db EXCEPT ![interview_id].answers =
                            PutAnswer(@, submission.question_id, entry)]
                /\ calls' = <<EvalCall(submission.question_id)>>
                /\ response' = Resp("submit_interview", 200, feedback)
                /\ answered' = answered \cup
                                 {<<interview_id, submission.question_id>>}
    /\ UNCHANGED <<questions_db, user_progress_db, uuid, returned, generations>>

\* A quotient a / b of line 384, kept exact.
Ratio(a, b) == [num |-> a, den |-> b]

Whole(a) == Ratio(a, 1)

RECURSIVE SumOver(_, _)
SumOver(S, f) ==
    IF S = {} THEN 0
    ELSE LET x == CHOOSE y \in S : TRUE IN f[x] + SumOver(S \ {x}, f)

MaxOver(S, f) == CHOOSE m \in {f[x] : x \in S} : \A x \in S : f[x] <= m

MinOver(S, f) == CHOOSE m \in {f[x] : x \in S} : \A x \in S : f[x] >= m

\* scores = [ans["feedback"]["score"] for ans in interview["answers"].values()]
Scores(answers) == [q \in DOMAIN answers |-> answers[q].feedback.score]

\* Floor division (//) in place of true division.
AvgScoreFloor(scores) ==
    IF DOMAIN scores # {}
    THEN Whole(SumOver(DOMAIN scores, scores) \div Cardinality(DOMAIN scores))
    ELSE Whole(0)

\* sum(scores) / len(scores) if scores else 0, line 384.
AvgScore(scores) ==
    IF DOMAIN scores # {}
    THEN Ratio(SumOver(DOMAIN scores, scores), Cardinality(DOMAIN scores))
    ELSE Whole(0)

\* The body returned by lines 386-397.
Summary(interview_id, interview) ==
    LET scores == Scores(interview.answers)
        avg_score == AvgScore(scores)
    IN  [interview_id |-> interview_id,
         status |-> "completed",
         overall_score |-> avg_score,
         questions_answered |-> Cardinality(DOMAIN interview.answers),
         total_questions |-> Len(interview.questions),
         performance_summary |->
            [average_score |-> avg_score,
             highest_score |-> IF DOMAIN scores # {}
                               THEN MaxOver(DOMAIN scores, scores) ELSE 0,
             lowest_score |-> IF DOMAIN scores # {}
                              THEN MinOver(DOMAIN scores, scores) ELSE 0]]

\* A completed session is taken out of the registry.
complete_interview_popping(interview_id, now) ==
    /\ UNCHANGED tasks
    /\ last_request' = Req("complete", [interview_id |-> interview_id])
    /\ IF interview_id \notin DOMAIN interviews_db
       THEN /\ response' = NotFound("complete", "Interview not found")
            /\ UNCHANGED interviews_db
       ELSE /\ interviews_db' =
                [i \in DOMAIN interviews_db \ {interview_id} |-> interviews_db[i]]
            /\ response' = Resp("complete", 200,
                                Summary(interview_id, interviews_db[interview_id]))
    /\ calls' = <<>>
    /\ UNCHANGED <<questions_db, user_progress_db, uuid, returned, answered, generations>>

\* Completing also empties the session's answer map.
complete_interview_clearing(interview_id, now) ==
    /\ UNCHANGED tasks
    /\ last_request' = Req("complete", [interview_id |-> interview_id])
    /\ IF interview_id \notin DOMAIN interviews_db
       THEN /\ response' = NotFound("complete", "Interview not found")
            /\ UNCHANGED interviews_db
       ELSE /\ interviews_db' =
                [interviews_db EXCEPT ![interview_id].status = "completed",
                                      ![interview_id].end_time = Some(now),
                                      ![interview_id].answers = <<>>]
            /\ response' = Resp("complete", 200,
                                Summary(interview_id, interviews_db[interview_id]))
    /\ calls' = <<>>
    /\ UNCHANGED <<questions_db, user_progress_db, uuid, returned, answered, generations>>

\* POST /api/mock-interview/{interview_id}/complete, lines 371-397.
complete_interview(interview_id, now) ==
    /\ UNCHANGED tasks
    /\ last_request' = Req("complete", [interview_id |-> interview_id])
    /\ IF interview_id \notin DOMAIN interviews_db
       THEN /\ response' = NotFound("complete", "Interview not found")
            /\ UNCHANGED interviews_db
       ELSE /\ interviews_db' =
                [interviews_db EXCEPT ![interview_id].status = "completed",
                                      ![interview_id].end_time = Some(now)]
            /\ response' = Resp("complete", 200,
                                Summary(interview_id, interviews_db[interview_id]))
    /\ calls' = <<>>
    /\ UNCHANGED <<questions_db, user_progress_db, uuid, returned, answered, generations>>

\* The default of lines 402-410.
EmptyProgress(user_id) ==
    [user_id |-> user_id,
     total_questions_attempted |-> 0,
     questions_by_type |-> [qt \in QuestionType |-> 0],
     average_score |-> 0,
     strengths |-> <<>>,
     weaknesses |-> <<>>,
     improvement_trend |-> <<>>]

\* setdefault in place of get: the default is inserted.
ProgressSetDefault(db, user_id) ==
    [db |-> IF user_id \in DOMAIN db THEN db
            ELSE db @@ (user_id :> EmptyProgress(user_id)),
     progress |-> IF user_id \in DOMAIN db THEN db[user_id]
                  ELSE EmptyProgress(user_id)]

\* user_progress_db.get(user_id, {...}), line 402: a lookup, not a setdefault.
ProgressLookup(db, user_id) ==
    [db |-> db,
     progress |-> IF user_id \in DOMAIN db THEN db[user_id]
                  ELSE EmptyProgress(user_id)]

\* GET /api/progress/{user_id}, lines 399-412.
get_user_progress(user_id) ==
    LET r == ProgressLookup(user_progress_db, user_id)
    IN  /\ UNCHANGED tasks
        /\ last_request' = Req("progress", [user_id |-> user_id])
        /\ user_progress_db' = r.db
        /\ response' = Resp("progress", 200, r.progress)
        /\ calls' = <<>>
        /\ UNCHANGED <<questions_db, interviews_db, uuid, returned, answered,
                       generations>>

\* ------------------------------------------------------------------ inputs

\* Items of the service's JSON array: a complete object, one lacking fields
\* (KeyError at line 158), and a complete one whose lists are empty.
GoodItem ==
    [question |-> "Q", expected_answer_points |-> <<"p1", "p2", "p3">>,
     topics |-> <<"t1", "t2">>, follow_up_questions |-> <<"f1", "f2">>]

BadItem == [question |-> "Q"]

EmptyItem ==
    [question |-> "Q", expected_answer_points |-> <<>>, topics |-> <<>>,
     follow_up_questions |-> <<>>]

Raise == [kind |-> "raise"]

NotJson == [kind |-> "not_json"]

Json(value) == [kind |-> "json", value |-> value]

Rep(item, n) == [i \in 1..n |-> item]

\* The service's replies to a request for count questions: failures, arrays of
\* 0, count and count+1 complete items, an array that breaks after one complete
\* item, and an item with empty lists.
GenReplies(count) ==
    {Raise, NotJson, Json(<<>>), Json(Rep(GoodItem, count)),
     Json(Rep(GoodItem, count + 1)), Json(<<GoodItem, BadItem>>),
     Json(<<EmptyItem>>)}

\* The smallest count a request may carry and the largest one asked for here.
Counts == {c \in CountLo..CountHi : c = CountLo \/ c = MaxCount}

GenRequests ==
    [role : {"Software Engineer"}, question_type : QuestionType,
     difficulty : {"medium"}, count : Counts]
        \cup [role : {"Software Engineer"}, question_type : {"technical"},
              difficulty : DifficultyLevel, count : {CountLo}]

\* Readings of datetime.now().isoformat().
Times == {"2026-01-01T09:00:00"}

Tasks == 1..MaxTasks

\* A task that has not been given its request.
Idle == [pc |-> "idle"]

Init ==
    /\ questions_db = <<>>
    /\ interviews_db = <<>>
    /\ user_progress_db = <<>>
    /\ uuid = 0
    /\ response = Resp("none", 0, <<>>)
    /\ calls = <<>>
    /\ last_request = Req("none", <<>>)
    /\ returned = {}
    /\ answered = {}
    /\ generations = 0
    /\ tasks = [t \in Tasks |-> Idle]

\* ------------------------------------------- generation, request by request

Generate ==
    /\ generations < MaxGenCalls
    /\ \E request \in GenRequests :
         \E reply \in GenReplies(request.count) :
            generate_questions(request, reply)

NextGen == Generate

SpecGen == Init /\ [][NextGen]_vars

\* ---------------------------------------------------- start, request by request

\* Lists of question types a start request may carry: empty, one, two and three
\* types, and a type without fallback templates after one with them.
StartTypeLists ==
    {<<>>, <<"technical">>, <<"technical", "behavioral">>,
     <<"technical", "system_design">>, <<"technical", "behavioral", "hr">>}

StartRequests ==
    [role : {"Data Scientist"}, duration_minutes : {30},
     question_types : StartTypeLists, difficulty : {"medium"}]

\* Per generation call of a start: the call fails, the array holds the count
\* asked for, or it breaks after one complete item.
StartReplies(count) ==
    {Raise, Json(Rep(GoodItem, count)), Json(<<GoodItem, BadItem>>)}

Start ==
    /\ generations < MaxGenCalls
    /\ \E request \in StartRequests :
         LET n == Len(request.question_types)
         IN  \E replies \in [1..n -> StartReplies(questions_per_type(Max2(n, 1)))] :
                start_mock_interview(request, replies)

NextStart == Start

SpecStart == Init /\ [][NextStart]_vars

\* ------------------------------------------------------ the whole service

\* Identifiers a client may send: those of the registry and one never issued.
InterviewIds == DOMAIN interviews_db \cup {0}

QuestionIds == DOMAIN questions_db \cup {0}

\* A start whose one generation call returns one question, and one whose second
\* type has no fallback templates while the service is down.
LifeStarts ==
    {<<<<"technical">>, <<Json(<<GoodItem>>)>>>>,
     <<<<"technical", "system_design">>, <<Json(<<GoodItem>>), Raise>>>>}

\* A generation that returns one question, and one that breaks after the first
\* item and falls back.
LifeGenerations ==
    {<<"technical", Json(<<GoodItem>>)>>,
     <<"technical", Json(<<GoodItem, BadItem>>)>>}

FeedbackJson(score) ==
    [score |-> score, strengths |-> <<"s">>, areas_for_improvement |-> <<"i">>,
     detailed_feedback |-> "d", suggested_resources |-> <<"r">>,
     model_answer |-> "m"]

\* The service's replies to an evaluation: a failure and a valid object.
LifeEvalReplies == {Raise, Json(FeedbackJson(ScoreHi))}

Submissions ==
    [question_id : QuestionIds, user_answer : {"my answer"},
     time_taken_seconds : {Some(120)}]

StartLife ==
    /\ generations < MaxGenCalls
    /\ \E s \in LifeStarts :
          start_mock_interview([role |-> "Data Scientist", duration_minutes |-> 30,
                                question_types |-> s[1], difficulty |-> "medium"],
                               s[2])

GenerateLife ==
    /\ generations < MaxGenCalls
    /\ \E g \in LifeGenerations :
          generate_questions([role |-> "Data Scientist", question_type |-> g[1],
                              difficulty |-> "medium", count |-> CountLo], g[2])

Begin == \E id \in InterviewIds, now \in Times : begin_interview(id, now)

SubmitInterview ==
    \E id \in InterviewIds, submission \in Submissions, reply \in LifeEvalReplies :
        submit_interview_answer(id, submission, reply)

Complete == \E id \in InterviewIds, now \in Times : complete_interview(id, now)

Submit ==
    \E submission \in Submissions, reply \in LifeEvalReplies :
        submit_answer(submission, reply)

GetProgress == \E user_id \in {"u1", "u2"} : get_user_progress(user_id)

Next ==
    \/ GenerateLife
    \/ StartLife
    \/ Begin
    \/ SubmitInterview
    \/ Complete
    \/ Submit
    \/ GetProgress

Spec == Init /\ [][Next]_vars

\* ------------------------------------------------- evaluation, reply by reply

\* The service's replies to an evaluation: failures, a value that is no object
\* with the six fields, and scores at and just outside the ends of the range.
EvalReplies ==
    {Raise, NotJson, Json([score |-> ScoreHi])}
        \cup {Json(FeedbackJson(sc)) :
                sc \in {ScoreLo - 1, ScoreLo, ScoreHi, ScoreHi + 1}}

SubmitEval ==
    \E submission \in Submissions, reply \in EvalReplies :
        submit_answer(submission, reply)

SubmitInterviewEval ==
    \E id \in InterviewIds, submission \in Submissions, reply \in EvalReplies :
        submit_interview_answer(id, submission, reply)

NextEval ==
    \/ GenerateLife
    \/ StartLife
    \/ SubmitEval
    \/ SubmitInterviewEval

SpecEval == Init /\ [][NextEval]_vars

\* ------------------------------------------------ scores that are floats

\* A natural number is a sequence of bits, most significant first, without
\* leading zeros (<<>> is 0).
StripZeros(b) ==
    IF \A i \in DOMAIN b : b[i] = 0 THEN <<>>
    ELSE LET first == CHOOSE i \in DOMAIN b :
                          b[i] = 1 /\ \A j \in 1..(i - 1) : b[j] = 0
         IN  SubSeq(b, first, Len(b))

Zeros(k) == [i \in 1..k |-> 0]

RECURSIVE BitsOf(_)
BitsOf(n) == IF n = 0 THEN <<>> ELSE Append(BitsOf(n \div 2), n % 2)

\* a + b: the carry into a place comes from the nearest lower place where both
\* bits are set, through places where exactly one is.
AddBits(a, b) ==
    LET L  == Max2(Len(a), Len(b))
        pa == Zeros(L - Len(a)) \o a
        pb == Zeros(L - Len(b)) \o b
        carry(i) == \E j \in (i + 1)..L :
                        /\ pa[j] + pb[j] = 2
                        /\ \A k \in (i + 1)..(j - 1) : pa[k] + pb[k] = 1
        bit(i) == (pa[i] + pb[i] + (IF carry(i) THEN 1 ELSE 0)) % 2
    IN  (IF carry(0) THEN <<1>> ELSE <<>>) \o [i \in 1..L |-> bit(i)]

\* Long division of the bits lo..hi of a by the small number n, entered with
\* remainder r: the quotient's bits for these places and the remainder left.
RECURSIVE DivSeg(_, _, _, _, _)
DivSeg(a, n, lo, hi, r) ==
    IF lo > hi THEN [q |-> <<>>, r |-> r]
    ELSE IF lo = hi
    THEN [q |-> <<(2 * r + a[lo]) \div n>>, r |-> (2 * r + a[lo]) % n]
    ELSE LET mid  == (lo + hi) \div 2
             left == DivSeg(a, n, lo, mid, r)
             right == DivSeg(a, n, mid + 1, hi, left.r)
         IN  [q |-> left.q \o right.q, r |-> right.r]

\* a divided by n: quotient bits and remainder.
DivBits(a, n) ==
    LET d == DivSeg(a, n, 1, Len(a), 0)
    IN  [q |-> StripZeros(d.q), r |-> d.r]

LessEqBits(a, b) ==
    \/ Len(a) < Len(b)
    \/ /\ Len(a) = Len(b)
       /\ \/ a = b
          \/ \E i \in DOMAIN a :
                /\ a[i] < b[i]
                /\ \A j \in 1..(i - 1) : a[j] = b[j]

\* A non-negative float: the value m * 2^e, m of exactly Mantissa bits, or zero.
FloatZero == [m |-> <<>>, e |-> 0]

\* The float nearest to a * 2^e (a without leading zeros), ties to even;
\* sticky tells that the exact value lies above a * 2^e by less than 2^e.
RoundBits(a, e, sticky) ==
    IF a = <<>> THEN FloatZero
    ELSE IF Len(a) <= Mantissa
    THEN [m |-> a \o Zeros(Mantissa - Len(a)), e |-> e - (Mantissa - Len(a))]
    ELSE LET drop == Len(a) - Mantissa
             keep == SubSeq(a, 1, Mantissa)
             rest == sticky \/ \E i \in (Mantissa + 2)..Len(a) : a[i] = 1
             up   == a[Mantissa + 1] = 1 /\ (rest \/ keep[Mantissa] = 1)
             m2   == IF up THEN AddBits(keep, <<1>>) ELSE keep
         IN  IF Len(m2) > Mantissa
             THEN [m |-> SubSeq(m2, 1, Mantissa), e |-> e + drop + 1]
             ELSE [m |-> m2, e |-> e + drop]

\* float(n) for an int n.
FloatOfInt(n) == RoundBits(BitsOf(n), 0, FALSE)

\* x + y, correctly rounded.
FloatAdd(x, y) ==
    IF x = FloatZero THEN y
    ELSE IF y = FloatZero THEN x
    ELSE LET lo == Min2(x.e, y.e)
         IN  RoundBits(AddBits(x.m \o Zeros(x.e - lo), y.m \o Zeros(y.e - lo)),
                       lo, FALSE)

\* x / n for an int n >= 1, correctly rounded: the quotient is taken with
\* enough further bits, and the remainder is what lies beyond them.
FloatDivInt(x, n) ==
    IF x = FloatZero THEN FloatZero
    ELSE LET k == Len(BitsOf(n)) + 3
             d == DivBits(x.m \o Zeros(k), n)
         IN  RoundBits(d.q, x.e - k, d.r # 0)

\* x <= y.
FloatLeq(x, y) ==
    IF x = FloatZero THEN TRUE
    ELSE IF y = FloatZero THEN FALSE
    ELSE LET lo == Min2(x.e, y.e)
         IN  LessEqBits(StripZeros(x.m \o Zeros(x.e - lo)),
                        StripZeros(y.m \o Zeros(y.e - lo)))

\* json.loads of the decimal literal t/10 (line 244): the float nearest to it.
JsonNumber(t) == FloatDivInt(FloatOfInt(t), 10)

\* sum(scores) of line 384: 0 + scores[0] + scores[1] + ..., left to right.
RECURSIVE FloatSum(_, _, _)
FloatSum(acc, scores, i) ==
    IF i > Len(scores) THEN acc
    ELSE FloatSum(FloatAdd(acc, scores[i]), scores, i + 1)

\* Lines 383-396 for a non-empty list of float scores.
FloatSummary(scores) ==
    LET S == {scores[i] : i \in DOMAIN scores}
    IN  [overall_score |-> FloatDivInt(FloatSum(FloatZero, scores, 1), Len(scores)),
         highest_score |-> CHOOSE x \in S : \A y \in S : FloatLeq(y, x),
         lowest_score |-> CHOOSE x \in S : \A y \in S : FloatLeq(x, y)]

\* Scores the service may give, in tenths: 0.0, 0.1, 0.7, 75.0 and 100.0.
ScoreTenths == {0, 1, 7, 750, 1000}

ScoreLists == UNION {[1..n -> ScoreTenths] : n \in 1..MaxAnswers}

\* The service as it starts, about to summarise one list of recorded scores.
InitScores ==
    /\ questions_db = <<>>
    /\ interviews_db = <<>>
    /\ user_progress_db = <<>>
    /\ uuid = 0
    /\ response = Resp("none", 0, <<>>)
    /\ calls = <<>>
    /\ last_request \in {Req("scores", [tenths |-> l]) : l \in ScoreLists}
    /\ returned = {}
    /\ answered = {}
    /\ generations = 0
    /\ tasks = [t \in Tasks |-> Idle]

Summarise ==
    /\ response.op = "none"
    /\ response' =
          Resp("scores", 200,
               FloatSummary([i \in DOMAIN last_request.args.tenths |->
                                JsonNumber(last_request.args.tenths[i])]))
    /\ UNCHANGED <<questions_db, interviews_db, user_progress_db, uuid, calls,
                   last_request, returned, answered, generations, tasks>>

NextScores == Summarise

SpecScores == InitScores /\ [][NextScores]_vars

\* ------------------------------------------- replies whose items differ

OtherItem ==
    [question |-> "Q2", expected_answer_points |-> <<"p4">>,
     topics |-> <<"t3">>, follow_up_questions |-> <<"f3">>]

\* Replies in which the place of an item shows: two different items, and three
\* of which the last lacks fields.
OrderedReplies ==
    {Raise, Json(<<GoodItem, OtherItem>>), Json(<<OtherItem, GoodItem, BadItem>>)}

OrderedGenRequests ==
    [role : {"Software Engineer"}, question_type : {"technical", "behavioral"},
     difficulty : {"medium"}, count : {MaxCount}]

OrderedStartRequests ==
    [role : {"Data Scientist"}, duration_minutes : {30},
     question_types : {<<"technical">>, <<"behavioral", "technical">>},
     difficulty : {"medium"}]

GenerateOrdered ==
    /\ generations < MaxGenCalls
    /\ \E request \in OrderedGenRequests, reply \in OrderedReplies :
          generate_questions(request, reply)

StartOrdered ==
    /\ generations < MaxGenCalls
    /\ \E request \in OrderedStartRequests :
          \E replies \in [1..Len(request.question_types) -> OrderedReplies] :
              start_mock_interview(request, replies)

NextOrdered ==
    \/ GenerateOrdered
    \/ StartOrdered

SpecOrdered == Init /\ [][NextOrdered]_vars

\* ------------------------------------------- sessions under a moving clock

\* Readings of datetime.now().isoformat(), lines 345 and 380.
Clock == {"2026-01-01T09:00:00", "2026-01-01T09:30:00"}

BeginAt ==
    \E id \in InterviewIds, now \in Clock : begin_interview(id, now)

CompleteAt ==
    \E id \in InterviewIds, now \in Clock : complete_interview(id, now)

\* Answers evaluated while the service is down: the feedback is the fallback.
SubmitAt ==
    \E id \in InterviewIds, submission \in Submissions :
        submit_interview_answer(id, submission, Raise)

NextClock ==
    \/ StartLife
    \/ BeginAt
    \/ SubmitAt
    \/ CompleteAt

SpecClock == Init /\ [][NextClock]_vars

\* ------------------------------------------ handlers suspended at the await

\* Another request is suspended at its await while task t runs.
Overlaps(t) ==
    \E u \in Tasks \ {t} : tasks[u].pc \in {"evaluating", "generating"}

\* A task that has answered: the reply it gave, what it was about, and whether
\* another request was in flight when it answered (history).
Done(t, op, code, info) ==
    [pc |-> "done", op |-> op, code |-> code, info |-> info,
     overlapped |-> Overlaps(t)]

\* submit_interview_answer up to the await of line 361: the two lookups.  The
\* local `interview` is a reference to the dict held by interviews_db, so the
\* task keeps the identifier; `question` is the Question found.
submit_interview_answer_enter(t, interview_id, submission) ==
    LET args == [interview_id |-> interview_id, submission |-> submission]
        missing == interview_id \notin DOMAIN interviews_db
                      \/ submission.question_id \notin DOMAIN questions_db
    IN  /\ tasks[t].pc = "idle"
        /\ IF missing
           THEN /\ last_request' = Req("submit_interview", args)
                /\ response' = NotFound("submit_interview",
                                   IF interview_id \notin DOMAIN interviews_db
                                   THEN "Interview not found"
                                   ELSE "Question not found")
                /\ calls' = <<>>
                /\ tasks' = [tasks EXCEPT ![t] = Done(t, "submit_interview", 404, args)]
           ELSE /\ tasks' = [tasks EXCEPT ![t] =
                                [pc |-> "evaluating",
                                 interview_id |-> interview_id,
                                 submission |-> submission,
                                 question |-> questions_db[submission.question_id]]]
                /\ UNCHANGED <<last_request, response, calls>>
        /\ UNCHANGED <<questions_db, interviews_db, user_progress_db, uuid,
                       returned, answered, generations>>

\* submit_interview_answer from the service's reply on, lines 361-369: the
\* entry is put into the session's answer map as it is now.
submit_interview_answer_resume(t, reply) ==
    /\ tasks[t].pc = "evaluating"
    /\ LET id  == tasks[t].interview_id
           sub == tasks[t].submission
           feedback == evaluate_answer_with_gpt(tasks[t].question,
                                                sub.user_answer, reply)
           entry == [answer |-> sub.user_answer, feedback |-> feedback,
                     time_taken |-> sub.time_taken_seconds]
       IN  /\ interviews_db' =
                    [interviews_db EXCEPT ![id].answers =
                        PutAnswer(@, sub.question_id, entry)]
           /\ last_request' = Req("submit_interview",
                                  [interview_id |-> id, submission |-> sub])
           /\ response' = Resp("submit_interview", 200, feedback)
           /\ calls' = <<EvalCall(sub.question_id)>>
           /\ answered' = answered \cup {<<id, sub.question_id>>}
           /\ tasks' = [tasks EXCEPT ![t] =
                           Done(t, "submit_interview", 200,
                                [interview_id |-> id, question_id |-> sub.question_id,
                                 entry |-> entry])]
    /\ UNCHANGED <<questions_db, user_progress_db, uuid, returned, generations>>

\* The session is put into the registry, without questions, before the first
\* generation call.
start_mock_interview_enter_early(t, request) ==
    LET id == uuid + 1
        n  == Len(request.question_types)
    IN  /\ tasks[t].pc = "idle"
        /\ uuid' = id
        /\ generations' = generations + 1
        /\ IF n = 0
           THEN /\ last_request' = Req("start", request)
                /\ response' = ServerError("start")
                /\ calls' = <<>>
                /\ tasks' = [tasks EXCEPT ![t] = Done(t, "start", 500, request)]
                /\ UNCHANGED interviews_db
           ELSE /\ tasks' = [tasks EXCEPT ![t] =
                                [pc |-> "generating", interview_id |-> id,
                                 request |-> request, i |-> 1,
                                 all_questions |-> <<>>, trace |-> <<>>,
                                 questions_per_type |-> questions_per_type(n)]]
                /\ interviews_db' = interviews_db @@
                        (id :> NewInterview(id, request.role, <<>>))
                /\ UNCHANGED <<last_request, response, calls>>
        /\ UNCHANGED <<questions_db, user_progress_db, returned, answered>>

\* start_mock_interview up to the first await of line 307: lines 300-304.
start_mock_interview_enter(t, request) ==
    LET id == uuid + 1
        n  == Len(request.question_types)
    IN  /\ tasks[t].pc = "idle"
        /\ uuid' = id
        /\ generations' = generations + 1
        /\ IF n = 0
           THEN /\ last_request' = Req("start", request)
                /\ response' = ServerError("start")
                /\ calls' = <<>>
                /\ tasks' = [tasks EXCEPT ![t] = Done(t, "start", 500, request)]
           ELSE /\ tasks' = [tasks EXCEPT ![t] =
                                [pc |-> "generating", interview_id |-> id,
                                 request |-> request, i |-> 1,
                                 all_questions |-> <<>>, trace |-> <<>>,
                                 questions_per_type |-> questions_per_type(n)]]
                /\ UNCHANGED <<last_request, response, calls>>
        /\ UNCHANGED <<questions_db, interviews_db, user_progress_db, returned,
                       answered>>

\* start_mock_interview from the reply to its i-th generation call on: the rest
\* of generate_questions_with_gpt, line 313, and either the next await or, after
\* the last type, lines 315-334.
start_mock_interview_resume(t, reply) ==
    /\ tasks[t].pc = "generating"
    /\ LET k == tasks[t]
           request == k.request
           qtype == request.question_types[k.i]
           r == generate_questions_with_gpt(questions_db, uuid, qtype,
                                            request.difficulty,
                                            k.questions_per_type, reply)
           trace == Append(k.trace, GenCall(qtype, k.questions_per_type, r))
           all_questions == k.all_questions \o r.questions
       IN  /\ questions_db' = r.db
           /\ uuid' = r.uuid
           /\ IF r.raised
              THEN /\ last_request' = Req("start", request)
                   /\ response' = ServerError("start")
                   /\ calls' = trace
                   /\ tasks' = [tasks EXCEPT ![t] = Done(t, "start", 500, request)]
                   /\ UNCHANGED <<interviews_db, returned>>
              ELSE IF k.i < Len(request.question_types)
              THEN /\ tasks' = [tasks EXCEPT ![t] =
                                   [k EXCEPT !.i = k.i + 1,
                                             !.all_questions = all_questions,
                                             !.trace = trace]]
                   /\ UNCHANGED <<last_request, response, calls, interviews_db,
                                  returned>>
              ELSE /\ interviews_db' = interviews_db @@
                         (k.interview_id :>
                             NewInterview(k.interview_id, request.role, all_questions))
                   /\ last_request' = Req("start", request)
                   /\ response' =
                         Resp("start", 200,
                              [interview_id |-> k.interview_id, role |-> request.role,
                               status |-> "not_started",
                               questions |-> all_questions,
                               start_time |-> None, end_time |-> None])
                   /\ calls' = trace
                   /\ returned' = returned \cup Ids(all_questions)
                   /\ tasks' = [tasks EXCEPT ![t] =
                                   Done(t, "start", 200,
                                        [interview_id |-> k.interview_id,
                                         role |-> request.role,
                                         questions |-> all_questions])]
    /\ UNCHANGED <<user_progress_db, answered, generations>>

ConcStartRequests ==
    [role : {"Data Scientist"}, duration_minutes : {30},
     question_types : {<<"technical">>, <<"technical", "behavioral">>,
                       <<"technical", "system_design">>},
     difficulty : {"medium"}]

ConcGenReplies == {Raise, Json(<<GoodItem>>)}

StartEnter ==
    /\ generations < MaxGenCalls
    /\ \E t \in Tasks, request \in ConcStartRequests :
          start_mock_interview_enter(t, request)

StartResume ==
    \E t \in Tasks, reply \in ConcGenReplies :
        start_mock_interview_resume(t, reply)

SubmitEnter ==
    \E t \in Tasks, id \in InterviewIds, submission \in Submissions :
        submit_interview_answer_enter(t, id, submission)

SubmitResume ==
    \E t \in Tasks, reply \in LifeEvalReplies :
        submit_interview_answer_resume(t, reply)

NextConc ==
    \/ StartEnter
    \/ StartResume
    \/ SubmitEnter
    \/ SubmitResume

SpecConc == Init /\ [][NextConc]_vars

\* ------------------------------------------------------------------ claims

StatusRank(st) ==
    CASE st = "not_started" -> 0
      [] st = "in_progress" -> 1
      [] st = "completed" -> 2

\* C1: across any sequence of start, begin, submit-answer and complete calls a
\* session's status only moves forward along not_started -> in_progress ->
\* completed: no step takes a session back to an earlier status.
C1_StatusOnlyMovesForward ==
    [][\A id \in DOMAIN interviews_db :
          StatusRank(interviews_db'[id].status)
              >= StatusRank(interviews_db[id].status)]_vars

\* C2: a generate request whose service call raises, or whose reply cannot be
\* parsed, is answered with a list of fallback questions of the requested type,
\* never with an error.
C2_FallbackNeverFails ==
    (last_request.op = "generate" /\ calls[1].fallback) =>
        /\ response.code = 200
        /\ Len(response.body) >= 1
        /\ \A i \in DOMAIN response.body :
              /\ response.body[i].question_type = last_request.args.question_type
              /\ response.body[i].topics = <<"general">>

\* C3: start never ends in an error for a validated request, whether the
\* service succeeds or fails: it registers and returns a session in status
\* not_started.
C3_StartNeverFails ==
    last_request.op = "start" =>
        /\ response.code = 200
        /\ response.body.status = "not_started"
        /\ response.body.interview_id \in DOMAIN interviews_db
        /\ interviews_db[response.body.interview_id].status = "not_started"

\* C5: a submit-answer (standalone or within a session) whose question
\* identifier was never returned to a caller by generate or start is answered
\* with not-found.
C5_UnreturnedIdIsNotFound ==
    /\ (last_request.op = "submit"
            /\ last_request.args.question_id \notin returned)
          => response.code = 404
    /\ (last_request.op = "submit_interview"
            /\ last_request.args.submission.question_id \notin returned)
          => response.code = 404

\* C6: a generate request with count N is answered with between 1 and N
\* question records, fewer than N only on the fallback path, each with non-empty
\* topics, expected_answer_points and follow_up_questions.
C6_BetweenOneAndCount ==
    last_request.op = "generate" =>
        /\ response.code = 200
        /\ Len(response.body) >= 1
        /\ Len(response.body) <= last_request.args.count
        /\ (Len(response.body) < last_request.args.count => calls[1].fallback)
        /\ \A i \in DOMAIN response.body :
              /\ response.body[i].topics # <<>>
              /\ response.body[i].expected_answer_points # <<>>
              /\ response.body[i].follow_up_questions # <<>>

\* The sum of the scores recorded in the answer map a under the ids of S.
RECURSIVE ScoreTotal(_, _)
ScoreTotal(a, S) ==
    IF S = {} THEN 0
    ELSE LET q == CHOOSE x \in S : \A y \in S : x <= y
         IN  a[q].feedback.score + ScoreTotal(a, S \ {q})

RECURSIVE ConcatIds(_, _)
ConcatIds(cs, i) ==
    IF i > Len(cs) THEN <<>> ELSE cs[i].ids \o ConcatIds(cs, i + 1)

C8_NotFoundChangesNothing ==
    [][(\/ /\ last_request'.op \in {"begin", "complete"}
           /\ last_request'.args.interview_id \notin DOMAIN interviews_db
        \/ /\ last_request'.op = "submit_interview"
           /\ \/ last_request'.args.interview_id \notin DOMAIN interviews_db
              \/ last_request'.args.submission.question_id
                    \notin DOMAIN questions_db)
       => /\ response'.code = 404
          /\ interviews_db' = interviews_db
          /\ questions_db' = questions_db
          /\ user_progress_db' = user_progress_db
          /\ answered' = answered
          /\ calls' = <<>>]_vars

\* A not-found for a known session and a question id that is not in the store.
C8_Witness ==
    /\ last_request.op = "submit_interview"
    /\ last_request.args.interview_id \in DOMAIN interviews_db
    /\ last_request.args.submission.question_id \notin DOMAIN questions_db
    /\ response.code = 404
    /\ answered # {}

\* A reply the evaluation cannot use: the call raised, the content is no JSON,
\* a field is missing, or the score lies outside [0, 100].
ReplyUnusable(reply) ==
    \/ reply.kind # "json"
    \/ \E f \in FeedbackFields : f \notin DOMAIN reply.value
    \/ reply.value.score < 0
    \/ reply.value.score > 100

\* The feedback a submit of a stored question must return under reply.
FeedbackFor(body, reply) ==
    /\ DOMAIN body = FeedbackFields
    /\ body.score >= 0
    /\ body.score <= 100
    /\ ReplyUnusable(reply) =>
          /\ body.score = 75
          /\ body = FallbackFeedback
    /\ ~ReplyUnusable(reply) => body.score = reply.value.score

\* C9: evaluating an answer to a stored question always returns a Feedback
\* value, never an error; whenever the service call or the parsing/validation
\* of its reply fails (a score outside [0,100] included) the result is the one
\* fixed fallback feedback with score 75.
C9_EvaluationNeverFails ==
    [][\A reply \in EvalReplies :
          /\ \A submission \in Submissions :
                (submission.question_id \in DOMAIN questions_db
                    /\ submit_answer(submission, reply))
                => (response'.code = 200 /\ FeedbackFor(response'.body, reply))
          /\ \A id \in DOMAIN interviews_db, submission \in Submissions :
                (submission.question_id \in DOMAIN questions_db
                    /\ submit_interview_answer(id, submission, reply))
                => /\ response'.code = 200
                   /\ FeedbackFor(response'.body, reply)
                   /\ interviews_db'[id].answers[submission.question_id].feedback
                         = response'.body]_vars

\* A session answer that was given the fallback feedback.
C9_Witness ==
    /\ last_request.op = "submit_interview"
    /\ response.code = 200
    /\ response.body = FallbackFeedback
    /\ \E id \in DOMAIN interviews_db :
          \E q \in DOMAIN interviews_db[id].answers :
              interviews_db[id].answers[q].feedback.score = ScoreLo

\* C10: reading progress for any user identifier returns a zero-valued record
\* carrying that identifier, never not-found, and no operation inserts into or
\* changes the Progress Store: it is empty in every reachable state.
C10_ProgressStoreStaysEmpty ==
    /\ DOMAIN user_progress_db = {}
    /\ last_request.op = "progress" =>
          /\ response.code = 200
          /\ response.body.user_id = last_request.args.user_id
          /\ response.body.total_questions_attempted = 0
          /\ response.body.average_score = 0
          /\ \A qt \in QuestionType : response.body.questions_by_type[qt] = 0
          /\ response.body.strengths = <<>>
          /\ response.body.weaknesses = <<>>
          /\ response.body.improvement_trend = <<>>

\* A progress read after answers were submitted in a session.
C10_Witness ==
    /\ last_request.op = "progress"
    /\ answered # {}
    /\ response.code = 200

\* C11: submit-answer on a known session with any question identifier present
\* in the Question Store succeeds whatever the session's status, records
\* {answer, feedback, time taken} under that question id, and changes nothing
\* else of that session (status, timestamps, question list, other answers) nor
\* any other session.
C11_SubmitRecordsOnly ==
    [][(/\ last_request'.op = "submit_interview"
        /\ last_request'.args.interview_id \in DOMAIN interviews_db
        /\ last_request'.args.submission.question_id \in DOMAIN questions_db)
       => LET id  == last_request'.args.interview_id
              sub == last_request'.args.submission
              old == interviews_db[id]
              new == interviews_db'[id]
          IN  /\ response'.code = 200
              /\ DOMAIN interviews_db' = DOMAIN interviews_db
              /\ \A i \in DOMAIN interviews_db \ {id} :
                    interviews_db'[i] = interviews_db[i]
              /\ new.status = old.status
              /\ new.start_time = old.start_time
              /\ new.end_time = old.end_time
              /\ new.questions = old.questions
              /\ new.role = old.role
              /\ DOMAIN new.answers = DOMAIN old.answers \cup {sub.question_id}
              /\ \A q \in DOMAIN old.answers \ {sub.question_id} :
                    new.answers[q] = old.answers[q]
              /\ new.answers[sub.question_id].answer = sub.user_answer
              /\ new.answers[sub.question_id].feedback = response'.body
              /\ new.answers[sub.question_id].time_taken = sub.time_taken_seconds
              /\ questions_db' = questions_db]_vars

\* An answer recorded in a completed session for a question that is not in the
\* session's own list.
C11_Witness ==
    /\ last_request.op = "submit_interview"
    /\ response.code = 200
    /\ LET id == last_request.args.interview_id
           q  == last_request.args.submission.question_id
       IN  /\ interviews_db[id].status = "completed"
           /\ q \in DOMAIN interviews_db[id].answers
           /\ \A i \in DOMAIN interviews_db[id].questions :
                 interviews_db[id].questions[i].id # q

\* C12: begin on a known session succeeds in every current status: it sets the
\* status to in_progress and overwrites start_time with the current time (a
\* second begin only resets the timestamp), and leaves the question list, the
\* answer map, end_time and every other session unchanged.
C12_BeginAlwaysRestarts ==
    [][\A id \in DOMAIN interviews_db, now \in Clock :
          begin_interview(id, now) =>
              /\ response'.code = 200
              /\ DOMAIN interviews_db' = DOMAIN interviews_db
              /\ interviews_db'[id].status = "in_progress"
              /\ interviews_db'[id].start_time = <<now>>
              /\ interviews_db'[id].questions = interviews_db[id].questions
              /\ interviews_db'[id].answers = interviews_db[id].answers
              /\ interviews_db'[id].end_time = interviews_db[id].end_time
              /\ interviews_db'[id].role = interviews_db[id].role
              /\ \A i \in DOMAIN interviews_db \ {id} :
                    interviews_db'[i] = interviews_db[i]
              /\ questions_db' = questions_db]_vars

\* A session begun again after it was completed and answered: in progress,
\* with the end time and the answer of its earlier life.
C12_Witness ==
    /\ last_request.op = "begin"
    /\ response.code = 200
    /\ LET iv == interviews_db[last_request.args.interview_id]
       IN  /\ iv.status = "in_progress"
           /\ iv.end_time # <<>>
           /\ iv.start_time # iv.end_time
           /\ DOMAIN iv.answers # {}

\* The tasks that have answered 200 to operation op.
Answered200(op) ==
    {t \in Tasks : tasks[t].pc = "done" /\ tasks[t].op = op /\ tasks[t].code = 200}

\* C13: with handlers interleaving only at the awaited service calls, no update
\* is lost: every submit-answer that has answered has its entry in its
\* session's answer map (the entry of the last to answer when two name the same
\* question), and every start that has answered has its own session in the
\* Session Registry with the questions it returned, each of them in the
\* Question Store.
C13_NoLostUpdate ==
    /\ \A t \in Answered200("submit_interview") :
          LET id == tasks[t].info.interview_id
              q  == tasks[t].info.question_id
          IN  /\ id \in DOMAIN interviews_db
              /\ q \in DOMAIN interviews_db[id].answers
              /\ \E u \in Answered200("submit_interview") :
                    /\ tasks[u].info.interview_id = id
                    /\ tasks[u].info.question_id = q
                    /\ interviews_db[id].answers[q] = tasks[u].info.entry
    /\ \A t \in Answered200("start") :
          LET id == tasks[t].info.interview_id
              qs == tasks[t].info.questions
          IN  /\ id \in DOMAIN interviews_db
              /\ interviews_db[id].questions = qs
              /\ interviews_db[id].role = tasks[t].info.role
              /\ \A i \in DOMAIN qs :
                    /\ qs[i].id \in DOMAIN questions_db
                    /\ questions_db[qs[i].id] = qs[i]
              /\ \A u \in Answered200("start") \ {t} :
                    /\ tasks[u].info.interview_id # id
                    /\ \A i \in DOMAIN qs, j \in DOMAIN tasks[u].info.questions :
                          qs[i].id # tasks[u].info.questions[j].id

\* Two submit-answer calls on one session for different questions, one of which
\* answered while the other was suspended, have both answered.
C13_Witness ==
    \E t \in Answered200("submit_interview") :
        \E u \in Answered200("submit_interview") \ {t} :
            /\ tasks[t].info.interview_id = tasks[u].info.interview_id
            /\ tasks[t].info.question_id # tasks[u].info.question_id
            /\ tasks[t].overlapped
            /\ tasks[t].info.entry.feedback # tasks[u].info.entry.feedback

\* C14: complete on a known session in any status sets the status to completed
\* and records end_time, and changes nothing else: the session's answer map,
\* question list and start_time, every other session and the Question Store are
\* unchanged; so a complete that follows a complete of the same session returns
\* the same scores and counts.
C14_CompleteOnlyFlipsState ==
    [][/\ \A id \in DOMAIN interviews_db, now \in Clock :
             complete_interview(id, now) =>
                 /\ response'.code = 200
                 /\ DOMAIN interviews_db' = DOMAIN interviews_db
                 /\ interviews_db'[id].status = "completed"
                 /\ interviews_db'[id].end_time = <<now>>
                 /\ interviews_db'[id].answers = interviews_db[id].answers
                 /\ interviews_db'[id].questions = interviews_db[id].questions
                 /\ interviews_db'[id].start_time = interviews_db[id].start_time
                 /\ interviews_db'[id].role = interviews_db[id].role
                 /\ \A i \in DOMAIN interviews_db \ {id} :
                       interviews_db'[i] = interviews_db[i]
                 /\ questions_db' = questions_db
                 /\ user_progress_db' = user_progress_db
       /\ (/\ last_request.op = "complete"
           /\ response.code = 200
           /\ last_request' = last_request)
          => response'.body = response.body]_vars

\* A summary over an answered session that was completed without having been
\* begun: its start time is still unset.
C14_Witness ==
    /\ last_request.op = "complete"
    /\ response.code = 200
    /\ response.body.questions_answered >= 1
    /\ LET iv == interviews_db[last_request.args.interview_id]
       IN  /\ iv.status = "completed"
           /\ iv.start_time = <<>>
           /\ iv.end_time # <<>>
           /\ DOMAIN iv.answers # {}

\* C15: the fallback returns exactly min(count, 3) questions for every question
\* type and every count; the i-th question (0-based) carries template number
\* i mod 3 of the requested type's template list, the requested type and
\* difficulty, and topics equal to ["general"].
C15_FallbackShape ==
    (last_request.op = "generate" /\ calls[1].fallback) =>
        LET a  == last_request.args
            qs == response.body
        IN  /\ response.code = 200
            /\ Len(qs) = (IF a.count <= 3 THEN a.count ELSE 3)
            /\ \A i \in DOMAIN qs :
                  /\ qs[i].question = templates[a.question_type][((i - 1) % 3) + 1]
                  /\ qs[i].question_type = a.question_type
                  /\ qs[i].difficulty = a.difficulty
                  /\ qs[i].topics = <<"general">>

\* The reply's texts stand in the questions of a generation call, in the
\* reply's order, or the type's templates in theirs when the call fell back.
KeepsOrder(db, call, reply) ==
    IF call.fallback
    THEN \A i \in DOMAIN call.ids :
            db[call.ids[i]].question
                = templates[call.question_type][((i - 1) % 3) + 1]
    ELSE /\ Len(call.ids) = Len(reply.value)
         /\ \A i \in DOMAIN call.ids :
               /\ db[call.ids[i]].question = reply.value[i].question
               /\ db[call.ids[i]].topics = reply.value[i].topics

\* The questions qs answered by a step are new to the store, to the callers
\* and to the identifiers issued before the step, differ from one another, and
\* are stored under their own identifiers.
FreshlyStored(qs) ==
    /\ \A i \in DOMAIN qs :
          /\ qs[i].id > uuid
          /\ qs[i].id \notin DOMAIN questions_db
          /\ qs[i].id \notin returned
          /\ qs[i].id \notin DOMAIN interviews_db
          /\ qs[i].id \in DOMAIN questions_db'
          /\ questions_db'[qs[i].id] = qs[i]
    /\ \A i \in DOMAIN qs, j \in DOMAIN qs : i # j => qs[i].id # qs[j].id
    /\ IdList(qs) = ConcatIds(calls', 1)

\* C16: every question returned by generate-questions or start carries a
\* freshly assigned identifier, distinct from every identifier issued before
\* and from the others in the same reply, is registered in the Question Store
\* under exactly that identifier, and the returned list keeps the order of the
\* upstream reply (or of the fallback templates).
C16_FreshIdsInOrder ==
    [][/\ \A request \in OrderedGenRequests, reply \in OrderedReplies :
             (generate_questions(request, reply) /\ response'.code = 200)
             => /\ FreshlyStored(response'.body)
                /\ KeepsOrder(questions_db', calls'[1], reply)
       /\ \A request \in OrderedStartRequests :
             \A replies \in [1..Len(request.question_types) -> OrderedReplies] :
                (start_mock_interview(request, replies) /\ response'.code = 200)
                => /\ FreshlyStored(response'.body.questions)
                   /\ \A k \in DOMAIN calls' :
                         KeepsOrder(questions_db', calls'[k], replies[k])]_vars

\* A start whose first type fell back and whose second was answered by the
\* service, after an earlier request had already been given identifiers.
C16_Witness ==
    /\ last_request.op = "start"
    /\ response.code = 200
    /\ Len(calls) = 2
    /\ calls[1].fallback
    /\ ~calls[2].fallback
    /\ Len(response.body.questions) = 5
    /\ returned # Ids(response.body.questions)

\* C17: the Question Store and the Session Registry only grow: a question
\* identifier in the store stays mapped to the same record, and a session
\* identifier in the registry is never removed and keeps its role and question
\* list, under every operation.
C17_StoresOnlyGrow ==
    [][/\ \A q \in DOMAIN questions_db :
             /\ q \in DOMAIN questions_db'
             /\ questions_db'[q] = questions_db[q]
       /\ \A i \in DOMAIN interviews_db :
             /\ i \in DOMAIN interviews_db'
             /\ interviews_db'[i].interview_id = interviews_db[i].interview_id
             /\ interviews_db'[i].role = interviews_db[i].role
             /\ interviews_db'[i].questions = interviews_db[i].questions]_vars

\* A second generation has added to a store that already held a session which
\* was begun, answered and completed.
C17_Witness ==
    /\ last_request.op \in {"generate", "start"}
    /\ generations = MaxGenCalls
    /\ Cardinality(DOMAIN questions_db) >= 2
    /\ \E i \in DOMAIN interviews_db :
          /\ interviews_db[i].status = "completed"
          /\ interviews_db[i].start_time # <<>>
          /\ DOMAIN interviews_db[i].answers # {}

\* C18: the questions a generation call adds to the Question Store are exactly
\* the questions it returns: when parsing of the reply fails partway through,
\* or the fallback itself fails, none of the questions built in the attempt
\* stay registered.
C18_StoresWhatItReturns ==
    [][generations' # generations =>
          DOMAIN questions_db' \ DOMAIN questions_db
              = (IF response'.code = 200 THEN Ids(response'.body) ELSE {})]_vars

\* C19: in every summary returned by complete, questions_answered is at most
\* total_questions: a session's answer map never holds more entries than the
\* session's question list.
C19_AnsweredAtMostTotal ==
    /\ \A i \in DOMAIN interviews_db :
          Cardinality(DOMAIN interviews_db[i].answers)
              <= Len(interviews_db[i].questions)
    /\ (last_request.op = "complete" /\ response.code = 200) =>
          response.body.questions_answered <= response.body.total_questions

\* C20: in every reachable state each session in the Session Registry is
\* complete and consistent with the Question Store: it is registered only once
\* its whole question list has been generated (by a start that has answered),
\* every question in its list is in the Question Store under the same
\* identifier, and every key of its answer map is an identifier in the store.
C20_SessionsConsistent ==
    /\ \A i \in DOMAIN interviews_db :
          LET iv == interviews_db[i]
          IN  /\ iv.interview_id = i
              /\ \A k \in DOMAIN iv.questions :
                    /\ iv.questions[k].id \in DOMAIN questions_db
                    /\ questions_db[iv.questions[k].id] = iv.questions[k]
              /\ \A q \in DOMAIN iv.answers : q \in DOMAIN questions_db
              /\ \E t \in Answered200("start") :
                    /\ tasks[t].info.interview_id = i
                    /\ tasks[t].info.questions = iv.questions
    /\ \A t \in Tasks :
          tasks[t].pc = "generating" =>
              tasks[t].interview_id \notin DOMAIN interviews_db

\* A registered session holds an answer while another start, having generated
\* the questions of its first type, waits for those of its second.
C20_Witness ==
    /\ \E i \in DOMAIN interviews_db : DOMAIN interviews_db[i].answers # {}
    /\ \E t \in Tasks :
          /\ tasks[t].pc = "generating"
          /\ tasks[t].i = 2
          /\ Len(tasks[t].all_questions) >= 1

\* C21: every feedback score recorded in any session's answer map lies in
\* [0, 100] whatever the external service replies, and every summary returned
\* by complete satisfies 0 <= lowest_score <= overall_score <= highest_score
\* <= 100.
C21_MeanBetweenExtremes ==
    response.op = "scores" =>
        /\ \A i \in DOMAIN last_request.args.tenths :
              /\ FloatLeq(FloatZero, JsonNumber(last_request.args.tenths[i]))
              /\ FloatLeq(JsonNumber(last_request.args.tenths[i]), FloatOfInt(100))
        /\ FloatLeq(FloatZero, response.body.lowest_score)
        /\ FloatLeq(response.body.lowest_score, response.body.overall_score)
        /\ FloatLeq(response.body.overall_score, response.body.highest_score)
        /\ FloatLeq(response.body.highest_score, FloatOfInt(100))

\* C22: session timestamps agree with status in every reachable state: a
\* session in not_started has start_time and end_time both unset, one in
\* in_progress has start_time set and end_time unset, and one in completed has
\* both set.
C22_TimestampsAgreeWithStatus ==
    \A i \in DOMAIN interviews_db :
        LET iv == interviews_db[i]
        IN  /\ iv.status = "not_started" =>
                  (iv.start_time = None /\ iv.end_time = None)
            /\ iv.status = "in_progress" =>
                  (iv.start_time # None /\ iv.end_time = None)
            /\ iv.status = "completed" =>
                  (iv.start_time # None /\ iv.end_time # None)

====
